---- MODULE Spec2Model ----
(***************************************************************************)
(* Window functions of SparkWindowFunctions.ipynb: the customers table,    *)
(* the window partitionBy("date").orderBy(desc("amount")), and the cells   *)
(* that apply row_number, rank, dense_rank, percent_rank, lag, lead and    *)
(* last over it.  Row indexes inside a partition are 0-based.              *)
(***************************************************************************)
EXTENDS Integers, Sequences, FiniteSets, TLC

VARIABLES df, call, ordered, frames, result, status,
          task, cancelled, finished, output

driver == <<task, cancelled, finished, output>>

vars == <<df, call, ordered, frames, result, status, driver>>

----------------------------------------------------------------------------
(* Bounds of the model *)

MaxRows == 3

MaxK == 1

MaxOffset == 2

MaxTiles == 2

MaxDriverRows == 2

MaxWorkers == 2

----------------------------------------------------------------------------
(* Rows and tables *)

Dates == {"2019-04-01", "2019-04-02"}

Amounts == {20, 40, 60}

Columns == {"customer_name", "amount"}

\* A shown value is a sequence of integers: the empty sequence for a missing
\* value, <<v>> for the value v, <<num, den>> for the fraction num/den.
null == <<>>

Some(v) == <<v>>

Row(c, d, a) == [customer_name |-> c, date |-> d, amount |-> a]

\* The table of the notebook; customer_name n stands for "Customer<n>".
Customers ==
  << Row(0, "2019-04-01", 60),
     Row(1, "2019-04-01", 30),
     Row(2, "2019-04-01", 40),
     Row(3, "2019-04-01", 40),
     Row(4, "2019-04-01", 20),
     Row(5, "2019-04-02", 20),
     Row(6, "2019-04-02", 10),
     Row(7, "2019-04-02", 60) >>

\* Every table of at most MaxRows rows; the i-th row is Customer<i-1>.
Tables ==
  UNION { { [i \in 1..n |-> Row(i - 1, f[i][1], f[i][2])] :
              f \in [1..n -> Dates \X Amounts] } : n \in 0..MaxRows }

Range(s) == { s[i] : i \in 1..Len(s) }

At(part, i) == part[i + 1]

Indexes(part) == 0..(Len(part) - 1)

----------------------------------------------------------------------------
(* Partitioner: partitionBy("date") *)

Keys(table) == { table[i].date : i \in 1..Len(table) }

PartitionAll(table, d) == table

PartitionOf(table, d) == SelectSeq(table, LAMBDA r : r.date = d)

----------------------------------------------------------------------------
(* Orderer: orderBy(desc("amount")) *)

Peers(r1, r2) == r1.amount = r2.amount

PrecedesAscending(r1, r2) == r1.amount < r2.amount

Precedes(r1, r2) == r1.amount > r2.amount

RECURSIVE Perms(_)
Perms(S) ==
  IF S = {} THEN { <<>> }
  ELSE UNION { { <<r>> \o t : t \in Perms(S \ {r}) } : r \in S }

\* The orders the sort may leave the rows S in: the rows of the greatest
\* amount first, in any order among themselves, then the rest likewise.
RECURSIVE SortDesc(_)
SortDesc(S) ==
  IF S = {} THEN { <<>> }
  ELSE LET first == { r \in S : \A q \in S : ~Precedes(q, r) }
       IN  { p \o t : p \in Perms(first), t \in SortDesc(S \ first) }

Orderings(part) == SortDesc(Range(part))

\* One ordered partition per key.
OrderedTables(table) ==
  { o \in [Keys(table) -> UNION { Orderings(PartitionOf(table, d)) : d \in Keys(table) }] :
      \A d \in Keys(table) : o[d] \in Orderings(PartitionOf(table, d)) }

PeerLow(part, i) ==
  CHOOSE l \in 0..i :
    /\ \A j \in l..i : Peers(At(part, j), At(part, i))
    /\ (l = 0 \/ ~Peers(At(part, l - 1), At(part, i)))

PeerHigh(part, i) ==
  CHOOSE h \in i..(Len(part) - 1) :
    /\ \A j \in i..h : Peers(At(part, j), At(part, i))
    /\ (h = Len(part) - 1 \/ ~Peers(At(part, h + 1), At(part, i)))

----------------------------------------------------------------------------
(* Ranking functions, evaluated row after row in partition order *)

RowNumberShared(part, i) == 1 + PeerLow(part, i)

RowNumber(part, i) == 1 + Cardinality({ j \in Indexes(part) : j < i })

RankByRow(part, i) == RowNumber(part, i)

RankOfLastPeer(part, i) == 1 + PeerHigh(part, i)

RankNoGap(part, i) == 1 + Cardinality({ At(part, j).amount : j \in 0..i }) - 1

RECURSIVE Rank(_, _)
Rank(part, i) ==
  IF i = 0 THEN 1
  ELSE IF Peers(At(part, i - 1), At(part, i)) THEN Rank(part, i - 1)
       ELSE RowNumber(part, i)

RECURSIVE DenseRankGap(_, _)
DenseRankGap(part, i) ==
  IF i = 0 THEN 1
  ELSE IF Peers(At(part, i - 1), At(part, i)) THEN DenseRankGap(part, i - 1)
       ELSE RowNumber(part, i)

RECURSIVE DenseRank(_, _)
DenseRank(part, i) ==
  IF i = 0 THEN 1
  ELSE IF Peers(At(part, i - 1), At(part, i)) THEN DenseRank(part, i - 1)
       ELSE DenseRank(part, i - 1) + 1

\* A percent rank is kept as the exact fraction num/den.
Frac(n, d) == <<n, d>>

Num(f) == f[1]

Den(f) == f[2]

FracEq(f, n, d) == Num(f) * d = n * Den(f)

PercentRankByRow(part, i) ==
  IF Len(part) = 1 THEN Frac(0, 1)
  ELSE Frac(RowNumber(part, i) - 1, Len(part) - 1)

PercentRank(part, i) ==
  IF Len(part) = 1 THEN Frac(0, 1)
  ELSE Frac(Rank(part, i) - 1, Len(part) - 1)

----------------------------------------------------------------------------
(* ntile(n): n groups as even as possible, the earlier ones take the rest *)

Ntile(n, part, i) ==
  LET size == Len(part)
      base == size \div n
      rem  == size % n
  IN  IF i < rem * (base + 1)
      THEN (i \div (base + 1)) + 1
      ELSE rem + ((i - rem * (base + 1)) \div base) + 1

----------------------------------------------------------------------------
(* Frames *)

Bound(kind, k) == [kind |-> kind, k |-> k]

UnboundedPreceding == Bound("UNBOUNDED_PRECEDING", 0)

UnboundedFollowing == Bound("UNBOUNDED_FOLLOWING", 0)

CurrentRow == Bound("CURRENT_ROW", 0)

Frame(unit, start, end) == [unit |-> unit, start |-> start, end |-> end]

\* A window that names no frame.
NoFrame == Frame("NONE", CurrentRow, CurrentRow)

\* rowsBetween(Window.unboundedPreceding, Window.unboundedFollowing)
WholePartition == Frame("ROWS", UnboundedPreceding, UnboundedFollowing)

OffsetBounds ==
  { Bound(kind, k) : kind \in {"PRECEDING", "FOLLOWING"}, k \in 1..MaxK }

StartBounds == {UnboundedPreceding, CurrentRow} \cup OffsetBounds

EndBounds == StartBounds \cup {UnboundedFollowing}

RowsFrames == { Frame("ROWS", s, e) : s \in StartBounds, e \in EndBounds }

\* RANGE frames are kept to the CURRENT ROW and UNBOUNDED forms.
RangeFrames ==
  { Frame("RANGE", s, e) : s \in {UnboundedPreceding, CurrentRow},
                           e \in {UnboundedPreceding, CurrentRow, UnboundedFollowing} }

\* The window orders by amount, so the frame of a window that names none
\* is RANGE BETWEEN UNBOUNDED PRECEDING AND CURRENT ROW.
DefaultFrame == Frame("RANGE", UnboundedPreceding, CurrentRow)

EffectiveFrame(frame) == IF frame.unit = "NONE" THEN DefaultFrame ELSE frame

Clamp(x, n) == IF x < 0 THEN 0 ELSE IF x > n - 1 THEN n - 1 ELSE x

RowsIndexForward(b, n, i) ==
  CASE b.kind = "UNBOUNDED_PRECEDING" -> 0
    [] b.kind = "UNBOUNDED_FOLLOWING" -> n - 1
    [] b.kind = "CURRENT_ROW"         -> i
    [] b.kind = "PRECEDING"           -> i + b.k
    [] b.kind = "FOLLOWING"           -> i + b.k

RowsIndex(b, n, i) ==
  CASE b.kind = "UNBOUNDED_PRECEDING" -> 0
    [] b.kind = "UNBOUNDED_FOLLOWING" -> n - 1
    [] b.kind = "CURRENT_ROW"         -> i
    [] b.kind = "PRECEDING"           -> i - b.k
    [] b.kind = "FOLLOWING"           -> i + b.k

RangeStart(part, b, i) ==
  CASE b.kind = "UNBOUNDED_PRECEDING" -> 0
    [] b.kind = "UNBOUNDED_FOLLOWING" -> Len(part) - 1
    [] b.kind = "CURRENT_ROW"         -> PeerLow(part, i)

RangeEnd(part, b, i) ==
  CASE b.kind = "UNBOUNDED_PRECEDING" -> 0
    [] b.kind = "UNBOUNDED_FOLLOWING" -> Len(part) - 1
    [] b.kind = "CURRENT_ROW"         -> PeerHigh(part, i)

InvalidFrame == [ok |-> FALSE, lowIndex |-> 0, highIndex |-> 0]

ResolvedFrame(low, high) == [ok |-> TRUE, lowIndex |-> low, highIndex |-> high]

ResolveFrame(part, frame, i) ==
  LET n     == Len(part)
      start == IF frame.unit = "ROWS"
               THEN Clamp(RowsIndex(frame.start, n, i), n)
               ELSE RangeStart(part, frame.start, i)
      end   == IF frame.unit = "ROWS"
               THEN Clamp(RowsIndex(frame.end, n, i), n)
               ELSE RangeEnd(part, frame.end, i)
  IN  IF start > end THEN InvalidFrame ELSE ResolvedFrame(start, end)

----------------------------------------------------------------------------
(* Value functions *)

LagInFrame(part, col, i, offset, default, frame) ==
  LET j == i - offset
      f == ResolveFrame(part, EffectiveFrame(frame), i)
  IN  IF j \in Indexes(part) /\ f.ok /\ j >= f.lowIndex /\ j <= f.highIndex
      THEN Some(At(part, j)[col]) ELSE default

\* lag reads the partition's full ordered sequence, whatever the frame.
Lag(part, col, i, offset, default, frame) ==
  LET j == i - offset
  IN  IF j \in Indexes(part) THEN Some(At(part, j)[col]) ELSE default

LeadAsLag(part, col, i, offset, default, frame) ==
  Lag(part, col, i, offset, default, frame)

Lead(part, col, i, offset, default, frame) ==
  LET j == i + offset
  IN  IF j \in Indexes(part) THEN Some(At(part, j)[col]) ELSE default

LastValueOwn(part, col, f, i) == Some(At(part, i)[col])

LastValue(part, col, f, i) == Some(At(part, f.highIndex)[col])

----------------------------------------------------------------------------
(* Calls: a window function and its arguments, applied over the window *)

Call(kind, col, offset, default, frame, n) ==
  [kind |-> kind, col |-> col, offset |-> offset, default |-> default,
   frame |-> frame, n |-> n]

NoCall == Call("none", "amount", 0, null, NoFrame, 0)

RankingCall(kind) == Call(kind, "amount", 0, null, NoFrame, 0)

Offsets == 0..MaxOffset

Defaults == {null, Some(0)}

\* Frames a window handed to lag may carry.
LagFrames == {NoFrame, Frame("ROWS", CurrentRow, CurrentRow)}

LastFrames == {NoFrame} \cup RowsFrames \cup RangeFrames

UsesFrame(c) == c.kind = "last_value"

\* The value of call c on row i of an ordered partition; f is the row's
\* resolved frame when the function reads one.
EvalRow(c, part, f, i) ==
  CASE c.kind = "row_number"   -> Some(RowNumber(part, i))
    [] c.kind = "rank"         -> Some(Rank(part, i))
    [] c.kind = "dense_rank"   -> Some(DenseRank(part, i))
    [] c.kind = "percent_rank" -> PercentRank(part, i)
    [] c.kind = "ntile"        -> Some(Ntile(c.n, part, i))
    [] c.kind = "lag"          -> Lag(part, c.col, i, c.offset, c.default, c.frame)
    [] c.kind = "lead"         -> Lead(part, c.col, i, c.offset, c.default, c.frame)
    [] c.kind = "last_value"   -> LastValue(part, c.col, f, i)

\* The frames of the rows of one ordered partition.
ResolvePartition(c, part) ==
  IF UsesFrame(c)
  THEN [x \in 1..Len(part) |-> ResolveFrame(part, EffectiveFrame(c.frame), x - 1)]
  ELSE <<>>

ResolveAll(c, o) == [d \in DOMAIN o |-> ResolvePartition(c, o[d])]

PartitionResolved(f) == \A x \in 1..Len(f) : f[x].ok

AllResolved(fr) == \A d \in DOMAIN fr : PartitionResolved(fr[d])

\* c on every row of one ordered partition whose frames are f.
EvalPartition(c, part, f) ==
  [x \in 1..Len(part) |->
     EvalRow(c, part, IF UsesFrame(c) THEN f[x] ELSE InvalidFrame, x - 1)]

\* What the call shows: the column of every partition, or nothing when a
\* frame is invalid.
Results(c, o, fr) ==
  [d \in DOMAIN o |-> IF AllResolved(fr) THEN EvalPartition(c, o[d], fr[d]) ELSE <<>>]

\* df.withColumn(name, c.over(windowF)).show(): partition, order, resolve the
\* frame of every row, evaluate c on every row.  An invalid frame on any row
\* aborts the call and no row is produced.  A cell reads df alone, so what it
\* shows does not depend on the cells run before it: it is modelled as run on
\* the data frame as created.
WithColumn(c) ==
  /\ status = "created"
  /\ \E o \in OrderedTables(df) :
    LET fr == ResolveAll(c, o)
    IN  /\ call' = c
        /\ ordered' = o
        /\ frames' = fr
        /\ status' = IF AllResolved(fr) THEN "ok" ELSE "InvalidFrame"
        /\ result' = Results(c, o, fr)
        /\ UNCHANGED <<df, driver>>

----------------------------------------------------------------------------
(* The state after createDataFrame, and the cells of the notebook *)

Init ==
  /\ df \in Tables \cup {Customers}
  /\ call = NoCall
  /\ ordered = [d \in Keys(df) |-> <<>>]
  /\ frames = [d \in Keys(df) |-> <<>>]
  /\ result = [d \in Keys(df) |-> <<>>]
  /\ status = "created"
  /\ task = [d \in Keys(df) |-> "pending"]
  /\ cancelled = FALSE
  /\ finished = <<>>
  /\ output = <<>>

\* Running the createDataFrame cell again: the same table, nothing shown.
CreateDataFrame ==
  /\ status # "created"
  /\ call' = NoCall
  /\ ordered' = [d \in Keys(df) |-> <<>>]
  /\ frames' = [d \in Keys(df) |-> <<>>]
  /\ result' = [d \in Keys(df) |-> <<>>]
  /\ status' = "created"
  /\ UNCHANGED <<df, driver>>

RowNumberCell == WithColumn(RankingCall("row_number"))

RankCell == WithColumn(RankingCall("rank"))

DenseRankCell == WithColumn(RankingCall("dense_rank"))

PercentRankCell == WithColumn(RankingCall("percent_rank"))

NtileCell == \E n \in 1..MaxTiles : WithColumn(Call("ntile", "amount", 0, null, NoFrame, n))

LagCell ==
  \E col \in Columns, offset \in Offsets, default \in Defaults, frame \in LagFrames :
    WithColumn(Call("lag", col, offset, default, frame, 0))

LeadCell ==
  \E col \in Columns, offset \in Offsets :
    WithColumn(Call("lead", col, offset, null, NoFrame, 0))

LastCell ==
  \E col \in Columns, frame \in LastFrames :
    WithColumn(Call("last_value", col, 0, null, frame, 0))

Next ==
  \/ CreateDataFrame
  \/ RowNumberCell
  \/ RankCell
  \/ DenseRankCell
  \/ PercentRankCell
  \/ NtileCell
  \/ LagCell
  \/ LeadCell
  \/ LastCell

Spec == Init /\ [][Next]_vars

----------------------------------------------------------------------------
(* Pipeline Driver: one task per partition, cancellation, merge *)

\* The requests the driver is run on: the notebook's table and every table
\* of at most MaxDriverRows rows; a ranking call, lag and lead of one row,
\* last_value over the whole partition, and last_value over a frame that is
\* invalid on every row but the first.
DriverTables == { t \in Tables : Len(t) <= MaxDriverRows } \cup {Customers}

DriverCalls ==
  { RankingCall("row_number"),
    Call("lag", "amount", 1, null, NoFrame, 0),
    Call("lead", "customer_name", 1, null, NoFrame, 0),
    Call("last_value", "amount", 0, null, WholePartition, 0),
    Call("last_value", "amount", 0, null, Frame("ROWS", CurrentRow, UnboundedPreceding), 0) }

OutputRow(r, v) ==
  [customer_name |-> r.customer_name, date |-> r.date, amount |-> r.amount, value |-> v]

\* The value the slice res of the ordered partition part holds for row r.
ValueIn(part, res, r) == res[CHOOSE x \in 1..Len(part) : part[x] = r]

\* The slice written by task d: no other slice changes.
WriteShared(res, d, vals) == [e \in DOMAIN res |-> vals]

WriteSlice(res, d, vals) == [res EXCEPT ![d] = vals]

\* The rows of the slices one after another, in the order the tasks completed.
RECURSIVE MergeByCompletion(_, _, _, _)
MergeByCompletion(table, o, res, done) ==
  IF done = <<>> THEN <<>>
  ELSE [x \in 1..Len(o[Head(done)]) |-> OutputRow(o[Head(done)][x], res[Head(done)][x])]
         \o MergeByCompletion(table, o, res, Tail(done))

\* The merge: the input rows in input order, each with the value its
\* partition's slice holds for it; done names the slices that are complete.
MergeOutput(table, o, res, done) ==
  [i \in 1..Len(table) |->
     IF table[i].date \in Range(done)
     THEN OutputRow(table[i], ValueIn(o[table[i].date], res[table[i].date], table[i]))
     ELSE OutputRow(table[i], null)]

InFlight == { d \in DOMAIN task : task[d] = "running" }

DriverInit ==
  /\ df \in DriverTables
  /\ call = NoCall
  /\ ordered = [d \in Keys(df) |-> <<>>]
  /\ frames = [d \in Keys(df) |-> <<>>]
  /\ result = [d \in Keys(df) |-> <<>>]
  /\ status = "created"
  /\ task = [d \in Keys(df) |-> "pending"]
  /\ cancelled = FALSE
  /\ finished = <<>>
  /\ output = <<>>

\* Evaluate(rows, schema, specs) is called.
Evaluate ==
  /\ status = "created"
  /\ \E c \in DriverCalls : call' = c
  /\ status' = "running"
  /\ UNCHANGED <<df, ordered, frames, result, driver>>

\* A worker takes the task of partition d: it partitions and orders.
Dispatch(d) ==
  /\ status = "running"
  /\ ~cancelled
  /\ task[d] = "pending"
  /\ Cardinality(InFlight) < MaxWorkers
  /\ \E part \in Orderings(PartitionOf(df, d)) : ordered' = [ordered EXCEPT ![d] = part]
  /\ task' = [task EXCEPT ![d] = "running"]
  /\ UNCHANGED <<df, call, frames, result, status, cancelled, finished, output>>

\* Task d resolves its frames and evaluates: it writes its slice, or it
\* aborts on an invalid frame, which aborts the evaluation.
Finish(d) ==
  /\ status = "running"
  /\ task[d] = "running"
  /\ LET f == ResolvePartition(call, ordered[d])
     IN  /\ frames' = [frames EXCEPT ![d] = f]
         /\ IF PartitionResolved(f)
            THEN /\ result' = WriteSlice(result, d, EvalPartition(call, ordered[d], f))
                 /\ task' = [task EXCEPT ![d] = "done"]
                 /\ finished' = Append(finished, d)
                 /\ UNCHANGED cancelled
            ELSE /\ task' = [task EXCEPT ![d] = "aborted"]
                 /\ cancelled' = TRUE
                 /\ UNCHANGED <<result, finished>>
  /\ UNCHANGED <<df, call, ordered, status, output>>

\* Task d, in flight when the request is cancelled, aborts.
Abort(d) ==
  /\ status = "running"
  /\ cancelled
  /\ task[d] = "running"
  /\ task' = [task EXCEPT ![d] = "aborted"]
  /\ UNCHANGED <<df, call, ordered, frames, result, status, cancelled, finished, output>>

Cancel ==
  /\ status = "running"
  /\ ~cancelled
  /\ cancelled' = TRUE
  /\ UNCHANGED <<df, call, ordered, frames, result, status, task, finished, output>>

\* Every task is done: the slices are merged and Evaluate returns the rows.
Merge ==
  /\ status = "running"
  /\ ~cancelled
  /\ \A d \in DOMAIN task : task[d] = "done"
  /\ output' = MergeOutput(df, ordered, result, finished)
  /\ status' = "ok"
  /\ UNCHANGED <<df, call, ordered, frames, result, task, cancelled, finished>>

\* Cancelled or aborted, and no task in flight: Evaluate returns no row.
Fail ==
  /\ status = "running"
  /\ cancelled
  /\ InFlight = {}
  /\ status' = IF \E d \in DOMAIN frames : ~PartitionResolved(frames[d])
               THEN "InvalidFrame" ELSE "cancelled"
  /\ UNCHANGED <<df, call, ordered, frames, result, driver>>

TaskStep(d) == Finish(d) \/ Abort(d)

DriverNext ==
  \/ Evaluate
  \/ \E d \in Dates : d \in DOMAIN task /\ Dispatch(d)
  \/ \E d \in Dates : d \in DOMAIN task /\ Finish(d)
  \/ \E d \in Dates : d \in DOMAIN task /\ Abort(d)
  \/ Cancel
  \/ Merge
  \/ Fail

\* A task in flight is CPU-bound and finite: it takes its step.
DriverSpec ==
  /\ DriverInit
  /\ [][DriverNext]_vars
  /\ \A d \in Dates : WF_vars(d \in DOMAIN task /\ TaskStep(d))

----------------------------------------------------------------------------
(* What the properties below read from a state *)

Shown(kind) == status = "ok" /\ call.kind = kind

Pos(d) == 1..Len(ordered[d])

PeerAt(d, x, y) == Peers(ordered[d][x], ordered[d][y])

GroupOf(d, x) == { y \in Pos(d) : PeerAt(d, x, y) }

AmountsOf(d) == [x \in Pos(d) |-> ordered[d][x].amount]

\* The number shown on the x-th row of partition d.
Number(d, x) == result[d][x][1]

Numbers(d) == [x \in 1..Len(result[d]) |-> Number(d, x)]

D1 == "2019-04-01"

D2 == "2019-04-02"

NotebookLag == Call("lag", "amount", 1, null, NoFrame, 0)

NotebookLead == Call("lead", "amount", 1, null, NoFrame, 0)

NotebookLast == Call("last_value", "amount", 0, null, WholePartition, 0)

----------------------------------------------------------------------------
\* C1: on the customers table, partitioned by date and ordered by amount
\* descending, partition 2019-04-01 is ordered [60,40,40,30,20] and shows
\* row_number 1,2,3,4,5, rank 1,2,2,4,5, dense_rank 1,2,2,3,4, percent_rank
\* 0,1/4,1/4,3/4,1, lag(amount,1) null,60,40,40,30, lead(amount,1)
\* 40,40,30,20,null and last(amount) over the whole partition 20 on every row;
\* partition 2019-04-02 is ordered [60,20,10] and shows 1,2,3 for row_number,
\* rank and dense_rank, percent_rank 0,1/2,1, lag null,60,20, lead 20,10,null
\* and last 10 on every row.
C1_WorkedExample ==
  (df = Customers /\ status = "ok") =>
    /\ AmountsOf(D1) = <<60, 40, 40, 30, 20>>
    /\ AmountsOf(D2) = <<60, 20, 10>>
    /\ call = RankingCall("row_number") =>
         Numbers(D1) = <<1, 2, 3, 4, 5>> /\ Numbers(D2) = <<1, 2, 3>>
    /\ call = RankingCall("rank") =>
         Numbers(D1) = <<1, 2, 2, 4, 5>> /\ Numbers(D2) = <<1, 2, 3>>
    /\ call = RankingCall("dense_rank") =>
         Numbers(D1) = <<1, 2, 2, 3, 4>> /\ Numbers(D2) = <<1, 2, 3>>
    /\ call = RankingCall("percent_rank") =>
         /\ Len(result[D1]) = 5 /\ Len(result[D2]) = 3
         /\ \A x \in 1..5 : FracEq(result[D1][x], <<0, 1, 1, 3, 4>>[x], 4)
         /\ \A x \in 1..3 : FracEq(result[D2][x], <<0, 1, 2>>[x], 2)
    /\ call = NotebookLag =>
         /\ result[D1] = <<null, Some(60), Some(40), Some(40), Some(30)>>
         /\ result[D2] = <<null, Some(60), Some(20)>>
    /\ call = NotebookLead =>
         /\ result[D1] = <<Some(40), Some(40), Some(30), Some(20), null>>
         /\ result[D2] = <<Some(20), Some(10), null>>
    /\ call = NotebookLast =>
         /\ result[D1] = [x \in 1..5 |-> Some(20)]
         /\ result[D2] = [x \in 1..3 |-> Some(10)]

C1_Witness == df = Customers /\ status = "ok" /\ call = RankingCall("rank")

C3_Rank ==
  Shown("rank") =>
    \A d \in DOMAIN ordered :
      /\ Len(result[d]) = Len(ordered[d])
      /\ \A x \in Pos(d) :
           /\ Number(d, x) = 1 + Cardinality({ y \in Pos(d) : y < x /\ ~PeerAt(d, x, y) })
           /\ Number(d, x) <= Len(ordered[d])
      /\ \A x, y \in Pos(d) : PeerAt(d, x, y) => Number(d, x) = Number(d, y)
      /\ \A x, y \in Pos(d) : x < y => Number(d, x) <= Number(d, y)
      /\ \A x \in Pos(d) :
           (x + 1 \in Pos(d) /\ ~PeerAt(d, x, x + 1)) =>
             Number(d, x + 1) = Number(d, x) + Cardinality(GroupOf(d, x))

C3_Witness ==
  /\ Shown("rank")
  /\ \E d \in DOMAIN ordered : \E x \in Pos(d) :
       /\ x + 2 \in Pos(d)
       /\ PeerAt(d, x, x + 1)
       /\ ~PeerAt(d, x + 1, x + 2)

\* C4: the dense rank of a row is 1 + the number of distinct peer groups
\* before its own; it starts at 1, never decreases, steps by 0 inside a peer
\* group and by exactly 1 into the next, and never exceeds the number of peer
\* groups of the partition.
C4_DenseRank ==
  Shown("dense_rank") =>
    \A d \in DOMAIN ordered :
      /\ Len(result[d]) = Len(ordered[d])
      /\ \A x \in Pos(d) :
           /\ Number(d, x) =
                1 + Cardinality({ GroupOf(d, y) : y \in { z \in Pos(d) : z < x /\ ~PeerAt(d, x, z) } })
           /\ Number(d, x) <= Cardinality({ GroupOf(d, y) : y \in Pos(d) })
      /\ (1 \in Pos(d) => Number(d, 1) = 1)
      /\ \A x \in Pos(d) :
           x + 1 \in Pos(d) =>
             Number(d, x + 1) = Number(d, x) + (IF PeerAt(d, x, x + 1) THEN 0 ELSE 1)

C4_Witness ==
  /\ Shown("dense_rank")
  /\ \E d \in DOMAIN ordered : \E x \in Pos(d) :
       /\ x + 2 \in Pos(d)
       /\ PeerAt(d, x, x + 1)
       /\ ~PeerAt(d, x + 1, x + 2)

InUnitInterval(f) == Len(f) = 2 /\ Den(f) > 0 /\ 0 <= Num(f) /\ Num(f) <= Den(f)

FirstGroup(d) == { x \in Pos(d) : PeerAt(d, 1, x) }

LastGroup(d) == { x \in Pos(d) : PeerAt(d, Len(ordered[d]), x) }

\* C5 as claimed: percent_rank lies in [0,1], is 0 on every row of the first
\* peer group and, in a partition of more than one row, is 1 on every row of
\* the last peer group, also when that group has more than one row.
C5_AsClaimed ==
  Shown("percent_rank") =>
    \A d \in DOMAIN ordered :
      /\ \A x \in Pos(d) : InUnitInterval(result[d][x])
      /\ \A x \in FirstGroup(d) : FracEq(result[d][x], 0, 1)
      /\ Len(ordered[d]) > 1 => \A x \in LastGroup(d) : FracEq(result[d][x], 1, 1)

\* C5: percent_rank lies in [0,1] and is 0 on every row of the first peer
\* group; in a partition of n > 1 rows whose last peer group has g rows it is
\* (n - g)/(n - 1) on every row of that group, which is 1 exactly when the
\* last peer group is a single row.
C5_PercentRank ==
  Shown("percent_rank") =>
    \A d \in DOMAIN ordered :
      /\ Len(result[d]) = Len(ordered[d])
      /\ \A x \in Pos(d) : InUnitInterval(result[d][x])
      /\ \A x \in FirstGroup(d) : FracEq(result[d][x], 0, 1)
      /\ Len(ordered[d]) > 1 =>
           \A x \in LastGroup(d) :
             /\ FracEq(result[d][x],
                       Len(ordered[d]) - Cardinality(LastGroup(d)), Len(ordered[d]) - 1)
             /\ FracEq(result[d][x], 1, 1) <=> Cardinality(LastGroup(d)) = 1

C5_Witness ==
  /\ Shown("percent_rank")
  /\ \E d \in DOMAIN ordered :
       /\ Cardinality(LastGroup(d)) = 2
       /\ Len(ordered[d]) = 3

\* The partition with the shown column added to every row as column "shown".
WithShown(d) ==
  [x \in Pos(d) |->
     [customer_name |-> ordered[d][x].customer_name, date |-> ordered[d][x].date,
      amount |-> ordered[d][x].amount, shown |-> result[d][x]]]

\* C6 as claimed: lead(col,1) at row i equals lag(col,1) at row i+1 whenever
\* both rows are inside the partition.
C6_AsClaimed ==
  (Shown("lead") /\ call.offset = 1) =>
    \A d \in DOMAIN ordered : \A x \in Pos(d) :
      x + 1 \in Pos(d) =>
        result[d][x] = Lag(ordered[d], call.col, x, 1, null, NoFrame)

\* C6: lead and lag shift by one row in opposite directions: with rows i and
\* i+1 inside the partition, lead(col,1) at row i is col of row i+1 and
\* lag(col,1) at row i+1 is col of row i, so lag(.,1) of the lead(col,1)
\* column gives col back at row i+1; lead(col,1) at row i equals lag(col,1)
\* at row i+2 when that row exists, and equals lag(col,1) at row i+1 only
\* when rows i and i+1 hold the same col.
C6_LeadLagInverse ==
  (Shown("lead") /\ call.offset = 1) =>
    \A d \in DOMAIN ordered : \A x \in Pos(d) :
      x + 1 \in Pos(d) =>
        /\ result[d][x] = Some(ordered[d][x + 1][call.col])
        /\ Lag(ordered[d], call.col, x, 1, null, NoFrame) = Some(ordered[d][x][call.col])
        /\ Lag(WithShown(d), "shown", x, 1, null, NoFrame)
             = Some(Some(ordered[d][x + 1][call.col]))
        /\ (x + 2 \in Pos(d) =>
              result[d][x] = Lag(ordered[d], call.col, x + 1, 1, null, NoFrame))
        /\ (result[d][x] = Lag(ordered[d], call.col, x, 1, null, NoFrame)
              <=> ordered[d][x][call.col] = ordered[d][x + 1][call.col])

C6_Witness ==
  /\ Shown("lead") /\ call.offset = 1
  /\ \E d \in DOMAIN ordered :
       /\ Len(ordered[d]) = 3
       /\ ordered[d][1][call.col] # ordered[d][2][call.col]

\* C7: lag(col, offset, default) on row i is col of row i - offset of the
\* ordered partition, whatever frame the window carries, and is the default
\* (null when none is given) when row i - offset is outside the partition; so
\* lag(col,1) is the default on the first row and col of the row before on the
\* others, and the value always comes from a row of the same partition.
C7_Lag ==
  Shown("lag") =>
    \A d \in DOMAIN ordered :
      /\ Len(result[d]) = Len(ordered[d])
      /\ \A x \in Pos(d) : ordered[d][x].date = d
      /\ { ordered[d][x] : x \in Pos(d) } = { df[k] : k \in { m \in 1..Len(df) : df[m].date = d } }
      /\ \A x \in Pos(d) :
           /\ (x - call.offset \in Pos(d)) =>
                result[d][x] = Some(ordered[d][x - call.offset][call.col])
           /\ (x - call.offset \notin Pos(d)) => result[d][x] = call.default
           /\ call.offset = 1 =>
                result[d][x] = IF x = 1 THEN call.default
                               ELSE Some(ordered[d][x - 1][call.col])

C7_Witness ==
  /\ Shown("lag")
  /\ call.offset = 2
  /\ call.default = Some(0)
  /\ call.frame = Frame("ROWS", CurrentRow, CurrentRow)
  /\ Cardinality(DOMAIN ordered) = 2
  /\ \E d \in DOMAIN ordered : Len(ordered[d]) = 3

RankingKinds == {"row_number", "rank", "dense_rank", "percent_rank", "ntile"}

LastOfGroup(d, x) == CHOOSE y \in GroupOf(d, x) : \A z \in GroupOf(d, x) : z <= y

EndsUnboundedFollowing(frame) ==
  frame.unit \in {"ROWS", "RANGE"} /\ frame.end = UnboundedFollowing

\* C9 as claimed: last_value(col) over an ordered window that names no frame
\* is the row's own col on every row, peers or not; with a frame that ends at
\* UNBOUNDED FOLLOWING it is col of the partition's last row on every row.
C9_AsClaimed ==
  Shown("last_value") =>
    \A d \in DOMAIN ordered : \A x \in Pos(d) :
      /\ call.frame = NoFrame => result[d][x] = Some(ordered[d][x][call.col])
      /\ EndsUnboundedFollowing(call.frame) =>
           result[d][x] = Some(ordered[d][Len(ordered[d])][call.col])

\* C9: last_value(col) over an ordered window that names no frame is col of
\* the last row of the current row's peer group: the row's own col when col
\* is the ORDER BY column or the row is the last of its peer group, and
\* another row's col otherwise; with a frame that ends at UNBOUNDED FOLLOWING
\* it is col of the partition's last row on every row.
C9_LastValue ==
  Shown("last_value") =>
    \A d \in DOMAIN ordered :
      /\ Len(result[d]) = Len(ordered[d])
      /\ \A x \in Pos(d) :
           /\ call.frame = NoFrame =>
                /\ result[d][x] = Some(ordered[d][LastOfGroup(d, x)][call.col])
                /\ (call.col = "amount" \/ LastOfGroup(d, x) = x) =>
                     result[d][x] = Some(ordered[d][x][call.col])
                /\ (call.col = "customer_name" /\ LastOfGroup(d, x) # x) =>
                     result[d][x] # Some(ordered[d][x][call.col])
           /\ EndsUnboundedFollowing(call.frame) =>
                result[d][x] = Some(ordered[d][Len(ordered[d])][call.col])

C9_Witness ==
  /\ Shown("last_value")
  /\ call.frame = NoFrame
  /\ call.col = "customer_name"
  /\ \E d \in DOMAIN ordered : \E x \in Pos(d) : LastOfGroup(d, x) # x

ClampedInto(v, n) == IF v < 0 THEN 0 ELSE IF v > n - 1 THEN n - 1 ELSE v

\* The index a ROWS boundary names on 0-based row i of a partition of n rows.
NamedIndex(b, n, i) ==
  IF b = UnboundedPreceding THEN 0
  ELSE IF b = UnboundedFollowing THEN n - 1
  ELSE IF b = CurrentRow THEN i
  ELSE IF b.kind = "PRECEDING" THEN i - b.k
  ELSE i + b.k

RowsResolution ==
  \A d \in DOMAIN ordered : \A x \in Pos(d) :
    LET n == Len(ordered[d])
        s == ClampedInto(NamedIndex(call.frame.start, n, x - 1), n)
        e == ClampedInto(NamedIndex(call.frame.end, n, x - 1), n)
        f == frames[d][x]
    IN  /\ f.ok <=> s <= e
        /\ f.ok => (f.lowIndex = s /\ f.highIndex = e)
        /\ f.ok => (0 <= f.lowIndex /\ f.lowIndex <= f.highIndex /\ f.highIndex <= n - 1)
        /\ f.ok \/ f = InvalidFrame

ResolvedRows == call.kind = "last_value" /\ status # "created" /\ call.frame.unit = "ROWS"

\* C10 as claimed: a ROWS frame resolves each boundary to the index it names,
\* clamped into [0, n-1], and is a frame 0 <= low <= high <= n-1 or fails with
\* InvalidFrame, failing exactly when the clamped start exceeds the clamped
\* end; so CURRENT ROW .. UNBOUNDED PRECEDING is rejected on every row.
C10_AsClaimed ==
  ResolvedRows =>
    /\ RowsResolution
    /\ call.frame = Frame("ROWS", CurrentRow, UnboundedPreceding) =>
         \A d \in DOMAIN ordered : \A x \in Pos(d) : ~frames[d][x].ok

\* C10: a ROWS frame resolves each boundary to the index it names, clamped
\* into [0, n-1], and is a frame 0 <= low <= high <= n-1 or fails with
\* InvalidFrame, failing exactly when the clamped start exceeds the clamped
\* end; so CURRENT ROW .. UNBOUNDED PRECEDING is rejected on every row but the
\* first of a partition, where both boundaries resolve to index 0 and the
\* frame is [0, 0].
C10_RowsFrame ==
  ResolvedRows =>
    /\ RowsResolution
    /\ \A d \in DOMAIN ordered : Len(frames[d]) = Len(ordered[d])
    /\ call.frame = Frame("ROWS", CurrentRow, UnboundedPreceding) =>
         \A d \in DOMAIN ordered : \A x \in Pos(d) :
           /\ x > 1 => frames[d][x] = InvalidFrame
           /\ x = 1 => frames[d][x] = ResolvedFrame(0, 0)
    /\ status = "InvalidFrame" <=>
         \E d \in DOMAIN ordered : \E x \in Pos(d) : ~frames[d][x].ok

C10_Witness ==
  /\ ResolvedRows
  /\ status = "InvalidFrame"
  /\ call.frame = Frame("ROWS", CurrentRow, UnboundedPreceding)
  /\ \E d \in DOMAIN ordered : Len(ordered[d]) = 3

\* C14: on every row dense_rank <= rank <= row_number; rank is the smallest
\* row_number of the row's peer group; and in a partition the three coincide
\* on every row exactly when every peer group of the partition has one row.
C14_RankingRelation ==
  Shown("rank") =>
    \A d \in DOMAIN ordered :
      /\ Len(result[d]) = Len(ordered[d])
      /\ \A x \in Pos(d) :
           /\ DenseRank(ordered[d], x - 1) <= Number(d, x)
           /\ Number(d, x) <= RowNumber(ordered[d], x - 1)
           /\ \E y \in GroupOf(d, x) :
                /\ Number(d, x) = RowNumber(ordered[d], y - 1)
                /\ \A z \in GroupOf(d, x) :
                     RowNumber(ordered[d], y - 1) <= RowNumber(ordered[d], z - 1)
      /\ (\A x \in Pos(d) :
            /\ DenseRank(ordered[d], x - 1) = Number(d, x)
            /\ Number(d, x) = RowNumber(ordered[d], x - 1))
           <=> (\A x \in Pos(d) : Cardinality(GroupOf(d, x)) = 1)

C14_Witness ==
  /\ Shown("rank")
  /\ \E d \in DOMAIN ordered :
       /\ Len(ordered[d]) = 3
       /\ \E x \in Pos(d) : Cardinality(GroupOf(d, x)) = 2
       /\ \E x \in Pos(d) : DenseRank(ordered[d], x - 1) < Number(d, x)

----------------------------------------------------------------------------
(* Partition independence *)

RowsOf(part, d) == SelectSeq(part, LAMBDA r : r.date = d)

\* The table that holds the rows of table for key d, in the same relative
\* order, and no row of another key.  Two tables that agree on the rows of d
\* have the same table Alone: when each gives the rows of d the values Alone
\* gives them, the two give them the same values.
Alone(table, d) == RowsOf(table, d)

\* The rows of key d, ordered o2 with columns res2, have the values they are
\* shown with in this state.
SameValues(d, o2, res2) ==
  /\ Len(res2) = Len(o2)
  /\ \A x \in Pos(d) : \A y \in 1..Len(o2) :
       (ordered[d][x].date = d /\ o2[y] = ordered[d][x]) => res2[y] = result[d][x]

\* The value lag or lead shows for customer_name is the default or the name
\* of a row of the same partition.
StaysInPartition(d) ==
  \A x \in Pos(d) :
    \/ result[d][x] = call.default
    \/ \E y \in 1..Len(df) :
         /\ df[y].date = ordered[d][x].date
         /\ result[d][x] = Some(df[y].customer_name)

----------------------------------------------------------------------------
(* The driver's schedule *)

\* What evaluating the partitions of table one after another returns when
\* the sort leaves them ordered o: the input rows in input order, each with
\* the value of the call on it.
SequentialOutput(c, table, o) ==
  LET res == Results(c, o, ResolveAll(c, o))
  IN  [i \in 1..Len(table) |->
         OutputRow(table[i], ValueIn(o[table[i].date], res[table[i].date], table[i]))]

SlicesCorrect ==
  \A d \in DOMAIN task :
    IF task[d] = "done"
    THEN /\ ordered[d] \in Orderings(RowsOf(df, d))
         /\ PartitionResolved(ResolvePartition(call, ordered[d]))
         /\ result[d] = EvalPartition(call, ordered[d], ResolvePartition(call, ordered[d]))
    ELSE result[d] = <<>>

\* Once the request is cancelled it stays cancelled and no pending task is
\* dispatched.
NoDispatchAfterCancel ==
  cancelled =>
    /\ cancelled'
    /\ \A d \in DOMAIN task : task[d] = "pending" => task'[d] = "pending"

\* A step changes the slice of a partition only when it completes that
\* partition's task, and then no other slice.
OwnSliceOnly ==
  \A d \in DOMAIN result :
    result'[d] # result[d] =>
      /\ task[d] = "running"
      /\ task'[d] = "done"
      /\ \A e \in DOMAIN result \ {d} : result'[e] = result[e]

\* C12: after cancellation no partition task is dispatched; every task in
\* flight eventually finishes or aborts; each task writes its own slice
\* only, and the slice of every completed task holds that partition's
\* results, whether or not the request was cancelled or other tasks aborted.
C12_Cancellation ==
  /\ []SlicesCorrect
  /\ [][NoDispatchAfterCancel /\ OwnSliceOnly]_vars
  /\ \A d \in Dates :
       (d \in DOMAIN task /\ task[d] = "running")
         ~> (d \in DOMAIN task /\ task[d] \in {"done", "aborted"})

\* Cancelled with one task completed and the other aborted in flight.
C12_Witness ==
  /\ cancelled
  /\ call.kind = "lag"
  /\ \E d \in DOMAIN task : task[d] = "done" /\ Len(result[d]) >= 2
  /\ \E d \in DOMAIN task : task[d] = "aborted"

====
